---- MODULE Spec2Model ----
(***************************************************************************)
(* Model of the two stock price fetchers of the repository:                *)
(*   src/stock_fetcher.py  fetch_and_save_stock_prices (time-series mode)  *)
(*   src/stock_prices.py   fetch_stock_prices          (quote mode)        *)
(*                                                                         *)
(* Strings the code inspects character by character (ticker symbols, the   *)
(* joined "symbols" parameter) are sequences of one-character strings.     *)
(* Numeric strings of a payload are records [numeric, v]: v is the value   *)
(* in units of 1e-5, numeric = FALSE is a string float() rejects.          *)
(* A datetime is the day of January 2024 it denotes.                       *)
(* A payload is the decoded JSON object: a sequence of top-level items in  *)
(* key order.  The transport's answers (failure, status, payload) are      *)
(* drawn when the code reads them.                                         *)
(***************************************************************************)
EXTENDS Integers, Sequences, FiniteSets, TLC

VARIABLES
    mode,        \* "ts": fetch_and_save_stock_prices, "quote": fetch_stock_prices, "entry": one from_alphavantage call
    symbols,     \* the symbols argument
    pc,          \* position in the running entry point
    i,           \* index of the symbol the for loop of stock_fetcher.py:120 is at
    status,      \* HTTP status of the response in hand
    calls,       \* the get calls made on the transport, in order
    collected,   \* stock_fetcher.py:118 collected
    received,    \* history: the time-series entries that reached from_alphavantage, raw
    normalized,  \* stock_prices.py:44 normalized_symbols
    file,        \* the destination path: [exists, header, rows]
    opens,       \* how many times the destination was opened for writing
    err,         \* <<>> or <<the exception that ended the invocation>>
    events,      \* history: get / status / norm / open steps in the order they happened
    tsKeys,      \* history: <<>> or <<the top-level keys of the last time-series payload read>>
    quoteSymbols, \* history: <<>> or <<the "symbol" values of the quotes of the payload read>>
    fa_args,     \* <<>> or <<arguments of a from_alphavantage call>>
    fa_result    \* <<>> or <<its outcome>>

vars == <<mode, symbols, pc, i, status, calls, collected, received, normalized,
          file, opens, err, events, tsKeys, quoteSymbols, fa_args, fa_result>>

(***************************************************************************)
(* Bounds of the model.                                                    *)
(***************************************************************************)
MaxSyms == 3
MaxQuotes == 2

(***************************************************************************)
(* Program constants.                                                      *)
(***************************************************************************)
TS_TIMEOUT == 30
QUOTE_TIMEOUT == 10

ALPHAVANTAGE_URL == "https://www.alphavantage.co/query"
YAHOO_FINANCE_QUOTE_URL == "https://query1.finance.yahoo.com/v7/finance/quote"

(***************************************************************************)
(* Strings.                                                                *)
(***************************************************************************)
SeqsUpTo(S, n) == UNION {[1..k -> S] : k \in 0..n}

\* Code point of a character (Python compares str by code point).
Ord(c) ==
    CASE c = " " -> 32
      [] c = "," -> 44
      [] c = "A" -> 65
      [] c = "M" -> 77
      [] c = "a" -> 97
      [] c = "m" -> 109

\* str.upper on one character.
UpperChar(c) ==
    CASE c = "a" -> "A"
      [] c = "m" -> "M"
      [] OTHER -> c

StrUpper(s) == [k \in 1..Len(s) |-> UpperChar(s[k])]

IsSpace(c) == c = " "

RECURSIVE LStrip(_)
LStrip(s) ==
    IF s = <<>> THEN <<>>
    ELSE IF IsSpace(Head(s)) THEN LStrip(Tail(s))
    ELSE s

RECURSIVE RStrip(_)
RStrip(s) ==
    IF s = <<>> THEN <<>>
    ELSE IF IsSpace(s[Len(s)]) THEN RStrip(SubSeq(s, 1, Len(s) - 1))
    ELSE s

\* str.strip
Strip(s) == RStrip(LStrip(s))

\* a < b for two str values
RECURSIVE StrLT(_, _)
StrLT(a, b) ==
    IF b = <<>> THEN FALSE
    ELSE IF a = <<>> THEN TRUE
    ELSE IF Ord(Head(a)) # Ord(Head(b)) THEN Ord(Head(a)) < Ord(Head(b))
    ELSE StrLT(Tail(a), Tail(b))

\* ",".join(parts)
RECURSIVE Join(_)
Join(parts) ==
    IF parts = <<>> THEN <<>>
    ELSE IF Len(parts) = 1 THEN parts[1]
    ELSE parts[1] \o <<",">> \o Join(Tail(parts))

(***************************************************************************)
(* Inputs: the symbols a caller may pass.                                  *)
(* " ", "ma", "AM", " am"                                                  *)
(***************************************************************************)
SymbolPool == { <<" ">>, <<"m", "a">>, <<"A", "M">>, <<" ", "a", "m">> }

SymbolLists == SeqsUpTo(SymbolPool, MaxSyms)

(***************************************************************************)
(* Exceptions.  symbols / timestamps: the symbols and timestamp strings    *)
(* the message names.  stage: where in the entry point it was raised.      *)
(***************************************************************************)
Exc(type, stage, syms, tss) ==
    [type |-> type, stage |-> stage, symbols |-> syms, timestamps |-> tss]

Ok(v) == [ok |-> TRUE, value |-> <<v>>, err |-> <<>>]
Fail(e) == [ok |-> FALSE, value |-> <<>>, err |-> <<e>>]

(***************************************************************************)
(* Time-series payloads.                                                   *)
(***************************************************************************)
Num(v) == [numeric |-> TRUE, v |-> v]
NotANumber == [numeric |-> FALSE, v |-> 0]

OHLCKeys == <<"1. open", "2. high", "3. low", "4. close">>

\* datetime.fromisoformat accepts the string
IsIsoformat(ts) ==
    ts \in {"2024-01-01", "2024-01-02", "2024-01-03", "2024-01-02T00:00:00"}

\* datetime.fromisoformat: the datetime (day of January 2024) of an accepted string
FromIsoformat(ts) ==
    CASE ts = "2024-01-01" -> 1
      [] ts = "2024-01-02" -> 2
      [] ts = "2024-01-02T00:00:00" -> 2
      [] ts = "2024-01-03" -> 3

\* datetime.isoformat
IsoFormat(d) ==
    CASE d = 1 -> "2024-01-01T00:00:00"
      [] d = 2 -> "2024-01-02T00:00:00"
      [] d = 3 -> "2024-01-03T00:00:00"

\* float(payload[key]): the exception it raises, if any
FloatError(fields, key) ==
    IF key \notin DOMAIN fields THEN <<Exc("KeyError", "entry", {}, {})>>
    ELSE IF ~fields[key].numeric THEN <<Exc("ValueError", "entry", {}, {})>>
    ELSE <<>>

\* int(x) of a float x, in units of 1e-5: truncation toward zero
IntOfFloat(v) == IF v >= 0 THEN v \div 100000 ELSE -((-v) \div 100000)

\* the volume expression of stock_fetcher.py:57: the exception it raises, if any
VolumeError(fields) ==
    IF "6. volume" \in DOMAIN fields THEN
        IF fields["6. volume"].numeric THEN <<>> ELSE <<Exc("ValueError", "entry", {}, {})>>
    ELSE IF "5. volume" \in DOMAIN fields THEN
        IF fields["5. volume"].numeric THEN <<>> ELSE <<Exc("ValueError", "entry", {}, {})>>
    ELSE <<>>

\* A plausible slip: only "5. volume" is looked at.
VolumeOnlyFive(fields) ==
    IF "5. volume" \in DOMAIN fields THEN IntOfFloat(fields["5. volume"].v) ELSE 0

\* the volume expression of stock_fetcher.py:57, when it raises nothing
Volume(fields) ==
    IF "6. volume" \in DOMAIN fields THEN IntOfFloat(fields["6. volume"].v)
    ELSE IF "5. volume" \in DOMAIN fields THEN IntOfFloat(fields["5. volume"].v)
    ELSE IntOfFloat(0)

\* The keyword arguments of cls(...) are evaluated in source order: the first
\* one that raises decides the exception.
FromAlphavantageErrors(timestamp, fields) ==
    (IF IsIsoformat(timestamp) THEN <<>>
     ELSE <<Exc("ValueError", "entry", {}, {timestamp})>>)
    \o FloatError(fields, OHLCKeys[1])
    \o FloatError(fields, OHLCKeys[2])
    \o FloatError(fields, OHLCKeys[3])
    \o FloatError(fields, OHLCKeys[4])
    \o VolumeError(fields)

\* StockPrice.from_alphavantage
FromAlphavantage(symbol, timestamp, fields) ==
    LET errs == FromAlphavantageErrors(timestamp, fields) IN
    IF errs # <<>> THEN Fail(errs[1])
    ELSE Ok([symbol |-> symbol,
             timestamp |-> FromIsoformat(timestamp),
             open |-> fields["1. open"].v,
             high |-> fields["2. high"].v,
             low |-> fields["3. low"].v,
             close |-> fields["4. close"].v,
             volume |-> Volume(fields)])

(***************************************************************************)
(* _prepare_rows                                                           *)
(***************************************************************************)
CSV_HEADER_TS == <<"symbol", "timestamp", "open", "high", "low", "close", "volume">>

\* f"{x:.4f}": x in units of 1e-5 to the nearest 1e-4 (the pools hold no tie)
Format4(v) == IF v >= 0 THEN (v + 5) \div 10 ELSE -((-v + 5) \div 10)

\* A plausible slip: the sort key is the symbol alone.
KeyLTSymbolOnly(p, q) == StrLT(p.symbol, q.symbol)

\* (p.symbol, p.timestamp) < (q.symbol, q.timestamp)
KeyLT(p, q) ==
    \/ StrLT(p.symbol, q.symbol)
    \/ p.symbol = q.symbol /\ p.timestamp < q.timestamp

\* sorted() is stable: an item goes before the first item with a greater key
RECURSIVE InsertSorted(_, _)
InsertSorted(s, x) ==
    IF s = <<>> THEN <<x>>
    ELSE IF KeyLT(x, Head(s)) THEN <<x>> \o s
    ELSE <<Head(s)>> \o InsertSorted(Tail(s), x)

RECURSIVE SortedByKey(_)
SortedByKey(data) ==
    IF data = <<>> THEN <<>>
    ELSE InsertSorted(SortedByKey(SubSeq(data, 1, Len(data) - 1)), data[Len(data)])

RowOf(item) ==
    [symbol |-> item.symbol,
     timestamp |-> IsoFormat(item.timestamp),
     open |-> Format4(item.open),
     high |-> Format4(item.high),
     low |-> Format4(item.low),
     close |-> Format4(item.close),
     volume |-> item.volume]

\* _prepare_rows: the header is kept apart from the data rows
PrepareRows(data) ==
    LET sorted == SortedByKey(data) IN
    [header |-> CSV_HEADER_TS,
     rows |-> [k \in 1..Len(sorted) |-> RowOf(sorted[k])]]

(***************************************************************************)
(* What the transport may answer in time-series mode.                      *)
(***************************************************************************)
GoodFields ==
    ("1. open" :> Num(1012340)) @@ ("2. high" :> Num(1100000)) @@
    ("3. low" :> Num(999996)) @@ ("4. close" :> Num(1050001)) @@
    ("5. volume" :> Num(120000000))

Entry(ts, isMapping, fields) ==
    [timestamp |-> ts, isMapping |-> isMapping, fields |-> fields]

GoodTimestamps == {"2024-01-01", "2024-01-02"}

Distinct(s) == \A a, b \in 1..Len(s) : a # b => s[a] # s[b]

\* series whose entries are all well formed, in every key order
GoodSeries ==
    { [k \in 1..Len(ts) |-> Entry(ts[k], TRUE, GoodFields)] :
        ts \in {t \in SeqsUpTo(GoodTimestamps, Cardinality(GoodTimestamps)) : Distinct(t)} }

\* an entry from_alphavantage or the loop rejects
BadEntries ==
    { Entry("2024-01-03", FALSE, <<>>),
      Entry("2024-01-03", TRUE, [k \in DOMAIN GoodFields \ {"1. open"} |-> GoodFields[k]]),
      Entry("2024-01-03", TRUE, [GoodFields EXCEPT !["4. close"] = NotANumber]),
      Entry("2024-13-01", TRUE, GoodFields) }

\* well-formed entries followed by one that is rejected
BadSeries == { Append(g, b) : g \in GoodSeries, b \in BadEntries }

Item(key, isMapping, entries) ==
    [key |-> key, isMapping |-> isMapping, entries |-> entries]

MetaData == Item("Meta Data", TRUE, <<>>)

\* payloads with a time-series key
SeriesPayloads ==
    { <<MetaData, Item("Time Series (Daily)", TRUE, s)>> : s \in GoodSeries \cup BadSeries }
    \cup { <<Item("Monthly Adjusted Time Series", FALSE, <<>>)>> }

\* payloads without one: the provider's error and rate-limit answers, and {}
KeylessPayloads ==
    { <<>>, <<Item("Error Message", FALSE, <<>>)>>, <<MetaData, Item("Note", FALSE, <<>>)>> }

TsPayloads == SeriesPayloads \cup KeylessPayloads

StatusPool == {200, 503}

\* exceptions session.get raises
TransportFailures == {"ConnectionError", "Timeout"}

(***************************************************************************)
(* Payload-shape extraction, stock_fetcher.py:130-148.                     *)
(***************************************************************************)
\* key.startswith("Time Series") or key.startswith("Monthly Adjusted Time Series")
IsTimeSeriesKey(key) ==
    key \in {"Time Series (Daily)", "Monthly Adjusted Time Series"}

\* next(...): the first matching top-level item, <<>> for None
RECURSIVE TimeSeriesItem(_)
TimeSeriesItem(payload) ==
    IF payload = <<>> THEN <<>>
    ELSE IF IsTimeSeriesKey(Head(payload).key) THEN <<Head(payload)>>
    ELSE TimeSeriesItem(Tail(payload))

\* A plausible slip: the message does not name the symbol.
UnexpectedFormatAnonymous(symbol) == Exc("ValueError", "shape", {}, {})

\* stock_fetcher.py:139
UnexpectedFormat(symbol) == Exc("ValueError", "shape", {symbol}, {})

\* stock_fetcher.py:143
NotAMapping(symbol) == Exc("ValueError", "shape", {symbol}, {})

\* stock_fetcher.py:147
EntryNotAMapping(symbol, timestamp) == Exc("ValueError", "entry", {symbol}, {timestamp})

\* the loop of stock_fetcher.py:145-148 over the entries left, acc = collected so far
RECURSIVE ExtractEntries(_, _, _)
ExtractEntries(symbol, entries, acc) ==
    IF entries = <<>> THEN Ok(acc)
    ELSE LET e == Head(entries) IN
         IF ~e.isMapping THEN Fail(EntryNotAMapping(symbol, e.timestamp))
         ELSE LET r == FromAlphavantage(symbol, e.timestamp, e.fields) IN
              IF ~r.ok THEN Fail(r.err[1])
              ELSE ExtractEntries(symbol, Tail(entries), Append(acc, r.value[1]))

\* stock_fetcher.py:130-148 for one payload: collected afterwards, or the exception
Normalize(symbol, payload, acc) ==
    LET item == TimeSeriesItem(payload) IN
    IF item = <<>> THEN Fail(UnexpectedFormat(symbol))
    ELSE IF ~item[1].isMapping THEN Fail(NotAMapping(symbol))
    ELSE ExtractEntries(symbol, item[1].entries, acc)

\* history: the entries of a payload that the loop handed to from_alphavantage
RawEntries(symbol, payload) ==
    LET item == TimeSeriesItem(payload) IN
    IF item = <<>> THEN <<>>
    ELSE [k \in 1..Len(item[1].entries) |->
            [symbol |-> symbol, timestamp |-> item[1].entries[k].timestamp,
             fields |-> item[1].entries[k].fields]]

(***************************************************************************)
(* The destination file.                                                   *)
(***************************************************************************)
Absent == [exists |-> FALSE, header |-> <<>>, rows |-> <<>>]

Written(header, rows) == [exists |-> TRUE, header |-> header, rows |-> rows]

Ev(what, k) == [ev |-> what, k |-> k]

Raise(e) ==
    /\ pc' = "error"
    /\ err' = <<e>>

(***************************************************************************)
(* fetch_and_save_stock_prices                                             *)
(***************************************************************************)
\* stock_fetcher.py:121-126: session.get for the symbol the loop is at
TsGet ==
    /\ mode = "ts" /\ pc = "ts_loop" /\ i <= Len(symbols)
    /\ calls' = Append(calls, [url |-> ALPHAVANTAGE_URL, symbol |-> symbols[i],
                               timeout |-> TS_TIMEOUT])
    /\ events' = Append(events, Ev("get", i))
    /\ \/ \E f \in TransportFailures :
            /\ Raise(Exc(f, "transport", {}, {}))
            /\ UNCHANGED status
       \/ \E st \in StatusPool :
            /\ status' = st
            /\ pc' = "ts_status"
            /\ UNCHANGED err
    /\ UNCHANGED <<mode, symbols, i, collected, received, normalized, file, opens,
                   tsKeys, quoteSymbols, fa_args, fa_result>>

\* A plausible slip: the status is never looked at.
TsRaiseForStatusIgnored ==
    /\ mode = "ts" /\ pc = "ts_status"
    /\ events' = Append(events, Ev("status", i))
    /\ pc' = "ts_json"
    /\ UNCHANGED <<mode, symbols, i, status, calls, collected, received, normalized,
                   file, opens, err, tsKeys, quoteSymbols, fa_args, fa_result>>

\* stock_fetcher.py:127: response.raise_for_status()
TsRaiseForStatus ==
    /\ mode = "ts" /\ pc = "ts_status"
    /\ events' = Append(events, Ev("status", i))
    /\ IF status = 200
       THEN pc' = "ts_json" /\ UNCHANGED err
       ELSE Raise(Exc("HTTPError", "status", {}, {}))
    /\ UNCHANGED <<mode, symbols, i, status, calls, collected, received, normalized,
                   file, opens, tsKeys, quoteSymbols, fa_args, fa_result>>

\* stock_fetcher.py:128-148: response.json() and the normalization of the payload
TsNormalize ==
    /\ mode = "ts" /\ pc = "ts_json"
    /\ \E payload \in TsPayloads :
        LET r == Normalize(symbols[i], payload, collected) IN
        /\ tsKeys' = <<[k \in 1..Len(payload) |-> payload[k].key]>>
        /\ IF r.ok
           THEN /\ collected' = r.value[1]
                /\ received' = received \o RawEntries(symbols[i], payload)
                /\ events' = Append(events, Ev("norm", i))
                /\ i' = i + 1
                /\ pc' = "ts_loop"
                /\ UNCHANGED err
           ELSE /\ Raise(r.err[1])
                /\ UNCHANGED <<collected, received, events, i>>
    /\ UNCHANGED <<mode, symbols, status, calls, normalized, file, opens,
                   quoteSymbols, fa_args, fa_result>>

\* stock_fetcher.py:150-156: _prepare_rows, then the file is opened and written
TsWrite ==
    /\ mode = "ts" /\ pc = "ts_loop" /\ i > Len(symbols)
    /\ LET out == PrepareRows(collected) IN
       file' = Written(out.header, out.rows)
    /\ opens' = opens + 1
    /\ events' = Append(events, Ev("open", 0))
    /\ pc' = "done"
    /\ UNCHANGED <<mode, symbols, i, status, calls, collected, received, normalized,
                   err, tsKeys, quoteSymbols, fa_args, fa_result>>

(***************************************************************************)
(* What the transport may answer in quote mode.  A quote is the keys it    *)
(* has and their values; price is in cents, time in epoch seconds.         *)
(***************************************************************************)
Quote(keys, symbol, price, currency, time) ==
    [keys |-> keys, symbol |-> symbol, price |-> price, currency |-> currency,
     time |-> time]

QuotePool ==
    { Quote({"symbol", "regularMarketPrice", "currency", "regularMarketTime"},
            <<"A", "M">>, 18950, "USD", 1704153600),
      Quote({"symbol", "regularMarketPrice", "currency"}, <<"m", "a">>, 4210, "EUR", 0),
      Quote({"regularMarketPrice"}, <<>>, 100, "", 0),
      Quote({"symbol", "regularMarketTime"}, <<"A", "M">>, 0, "", 0) }

QuotePayload(hasQuoteResponse, hasResult, result) ==
    [hasQuoteResponse |-> hasQuoteResponse, hasResult |-> hasResult, result |-> result]

QuotePayloads ==
    { QuotePayload(FALSE, FALSE, <<>>), QuotePayload(TRUE, FALSE, <<>>) }
    \cup { QuotePayload(TRUE, TRUE, q) : q \in SeqsUpTo(QuotePool, MaxQuotes) }

(***************************************************************************)
(* fetch_stock_prices                                                      *)
(***************************************************************************)
CSV_HEADER_QUOTE == <<"symbol", "price", "currency", "timestamp">>

NonBlank(symbol) == Strip(symbol) # <<>>

\* stock_prices.py:44
NormalizedSymbols(syms) ==
    LET kept == SelectSeq(syms, NonBlank) IN
    [k \in 1..Len(kept) |-> StrUpper(Strip(kept[k]))]

\* stock_prices.py:56
QuotesOf(payload) ==
    IF payload.hasQuoteResponse /\ payload.hasResult THEN payload.result ELSE <<>>

\* quote.get("symbol", "")
LookupSymbol(quote) == IF "symbol" \in quote.keys THEN quote.symbol ELSE <<>>

\* quote.get("symbol", "").upper()
LookupKey(quote) == StrUpper(LookupSymbol(quote))

\* quote_lookup.get(symbol): in the dict comprehension the last quote of a key wins
QuoteLookup(quotes, symbol) ==
    LET hits == {k \in 1..Len(quotes) : LookupKey(quotes[k]) = symbol} IN
    IF hits = {} THEN <<>>
    ELSE <<quotes[CHOOSE k \in hits : \A h \in hits : h <= k]>>

\* dt.datetime.fromtimestamp(t, tz=utc).isoformat()
FromTimestampIso(t) ==
    CASE t = 1704153600 -> "2024-01-02T00:00:00+00:00"

\* stock_prices.py:63-70
EmptyRow(symbol) ==
    [symbol |-> symbol, price |-> <<>>, currency |-> "", timestamp |-> ""]

\* stock_prices.py:73-87
QuoteRow(symbol, quote) ==
    LET market_time == IF "regularMarketTime" \in quote.keys THEN quote.time ELSE 0 IN
    [symbol |-> symbol,
     price |-> IF "regularMarketPrice" \in quote.keys THEN <<quote.price>> ELSE <<>>,
     currency |-> IF "currency" \in quote.keys THEN quote.currency ELSE "",
     timestamp |-> IF market_time # 0 THEN FromTimestampIso(market_time) ELSE ""]

\* A plausible slip: a symbol without a quote is dropped.
QuoteRowsDropping(syms, quotes) ==
    LET found == SelectSeq(syms, LAMBDA x : QuoteLookup(quotes, x) # <<>>) IN
    [k \in 1..Len(found) |-> QuoteRow(found[k], QuoteLookup(quotes, found[k])[1])]

\* stock_prices.py:58-87
QuoteRows(syms, quotes) ==
    [k \in 1..Len(syms) |->
        LET quote == QuoteLookup(quotes, syms[k]) IN
        IF quote = <<>> THEN EmptyRow(syms[k]) ELSE QuoteRow(syms[k], quote[1])]

\* A plausible slip: only the first symbol is requested.
QuoteParamsFirstOnly(syms) == syms[1]

\* stock_prices.py:50
QuoteParams(syms) == Join(syms)

\* stock_prices.py:41-46
QCheckInput ==
    /\ mode = "quote" /\ pc = "q_check"
    /\ IF symbols = <<>>
       THEN /\ Raise(Exc("ValueError", "input", {}, {}))
            /\ UNCHANGED normalized
       ELSE /\ normalized' = NormalizedSymbols(symbols)
            /\ IF normalized' = <<>>
               THEN Raise(Exc("ValueError", "input", {}, {}))
               ELSE pc' = "q_get" /\ UNCHANGED err
    /\ UNCHANGED <<mode, symbols, i, status, calls, collected, received, file, opens,
                   events, tsKeys, quoteSymbols, fa_args, fa_result>>

\* stock_prices.py:48-52
QGet ==
    /\ mode = "quote" /\ pc = "q_get"
    /\ calls' = Append(calls, [url |-> YAHOO_FINANCE_QUOTE_URL,
                               symbols |-> QuoteParams(normalized),
                               timeout |-> QUOTE_TIMEOUT])
    /\ events' = Append(events, Ev("get", 1))
    /\ \/ \E f \in TransportFailures :
            /\ Raise(Exc(f, "transport", {}, {}))
            /\ UNCHANGED status
       \/ \E st \in StatusPool :
            /\ status' = st
            /\ pc' = "q_status"
            /\ UNCHANGED err
    /\ UNCHANGED <<mode, symbols, i, collected, received, normalized, file, opens,
                   tsKeys, quoteSymbols, fa_args, fa_result>>

\* stock_prices.py:53
QRaiseForStatus ==
    /\ mode = "quote" /\ pc = "q_status"
    /\ events' = Append(events, Ev("status", 1))
    /\ IF status = 200
       THEN pc' = "q_json" /\ UNCHANGED err
       ELSE Raise(Exc("HTTPError", "status", {}, {}))
    /\ UNCHANGED <<mode, symbols, i, status, calls, collected, received, normalized,
                   file, opens, tsKeys, quoteSymbols, fa_args, fa_result>>

\* stock_prices.py:55-97: the rows are built, then the file is opened and written
QWrite ==
    /\ mode = "quote" /\ pc = "q_json"
    /\ \E payload \in QuotePayloads :
        /\ file' = Written(CSV_HEADER_QUOTE, QuoteRows(normalized, QuotesOf(payload)))
        /\ quoteSymbols' = <<{LookupSymbol(QuotesOf(payload)[k]) :
                                k \in 1..Len(QuotesOf(payload))}>>
    /\ opens' = opens + 1
    /\ events' = Append(events, Ev("norm", 1)) \o <<Ev("open", 0)>>
    /\ pc' = "done"
    /\ UNCHANGED <<mode, symbols, i, status, calls, collected, received, normalized,
                   err, tsKeys, fa_args, fa_result>>

(***************************************************************************)
(* The program: one invocation of either entry point.                      *)
(***************************************************************************)
Init ==
    /\ mode \in {"ts", "quote"}
    /\ symbols \in SymbolLists
    /\ pc = IF mode = "ts" THEN "ts_loop" ELSE "q_check"
    /\ i = 1
    /\ status = 0
    /\ calls = <<>>
    /\ collected = <<>>
    /\ received = <<>>
    /\ normalized = <<>>
    /\ file = Absent
    /\ opens = 0
    /\ err = <<>>
    /\ events = <<>>
    /\ tsKeys = <<>>
    /\ quoteSymbols = <<>>
    /\ fa_args = <<>>
    /\ fa_result = <<>>

Next ==
    \/ TsGet
    \/ TsRaiseForStatus
    \/ TsNormalize
    \/ TsWrite
    \/ QCheckInput
    \/ QGet
    \/ QRaiseForStatus
    \/ QWrite

Spec == Init /\ [][Next]_vars

(***************************************************************************)
(* StockPrice.from_alphavantage on its own, over every shape of entry.     *)
(***************************************************************************)
FieldKeys == {"1. open", "2. high", "3. low", "4. close", "5. volume", "6. volume"}

\* "1.0123", "not a number"; volumes "1200", "3456.7", "n/a"
FieldValues(key) ==
    IF key \in {"5. volume", "6. volume"}
    THEN {Num(120000000), Num(345670000), NotANumber}
    ELSE {Num(101230), NotANumber}

FieldMappings ==
    UNION { {f \in [keys -> {Num(101230), Num(120000000), Num(345670000), NotANumber}] :
                \A k \in keys : f[k] \in FieldValues(k)} :
            keys \in SUBSET FieldKeys }

EntryTimestamps == {"2024-01-01", "2024-01-02T00:00:00", "2024-13-01"}

InitEntry ==
    /\ mode = "entry"
    /\ symbols = <<>>
    /\ pc = "entry_call"
    /\ i = 1
    /\ status = 0
    /\ calls = <<>>
    /\ collected = <<>>
    /\ received = <<>>
    /\ normalized = <<>>
    /\ file = Absent
    /\ opens = 0
    /\ err = <<>>
    /\ events = <<>>
    /\ tsKeys = <<>>
    /\ quoteSymbols = <<>>
    /\ fa_args \in { <<[symbol |-> <<"A", "M">>, timestamp |-> ts, fields |-> f]>> :
                       ts \in EntryTimestamps, f \in FieldMappings }
    /\ fa_result = <<>>

\* one call of StockPrice.from_alphavantage
FromAlphavantageCall ==
    /\ mode = "entry" /\ pc = "entry_call"
    /\ fa_result' = <<FromAlphavantage(fa_args[1].symbol, fa_args[1].timestamp,
                                       fa_args[1].fields)>>
    /\ pc' = "entry_done"
    /\ UNCHANGED <<mode, symbols, i, status, calls, collected, received, normalized,
                   file, opens, err, events, tsKeys, quoteSymbols, fa_args>>

NextEntry == FromAlphavantageCall

SpecEntry == InitEntry /\ [][NextEntry]_vars

(***************************************************************************)
(* Properties.                                                             *)
(***************************************************************************)
Done(m) == mode = m /\ pc = "done"

Failed(m) == mode = m /\ pc = "error"

\* the ISO-8601 text a payload's timestamp key is expected to appear as
ExpectedIso(ts) ==
    CASE ts \in {"2024-01-01"} -> "2024-01-01T00:00:00"
      [] ts \in {"2024-01-02", "2024-01-02T00:00:00"} -> "2024-01-02T00:00:00"
      [] ts \in {"2024-01-03"} -> "2024-01-03T00:00:00"

\* the instants of the output timestamps, in time order
IsoRank(iso) ==
    CASE iso = "2024-01-01T00:00:00" -> 1
      [] iso = "2024-01-02T00:00:00" -> 2
      [] iso = "2024-01-03T00:00:00" -> 3

RowsOf(sym, iso) ==
    {r \in 1..Len(file.rows) : file.rows[r].symbol = sym /\ file.rows[r].timestamp = iso}

EntriesOf(sym, iso) ==
    {k \in 1..Len(received) : received[k].symbol = sym
                              /\ ExpectedIso(received[k].timestamp) = iso}

RowLE(a, b) ==
    \/ StrLT(a.symbol, b.symbol)
    \/ a.symbol = b.symbol /\ IsoRank(a.timestamp) <= IsoRank(b.timestamp)

\* C1: after a successful time-series invocation over a non-empty list of
\* symbols, the data rows of the file are exactly one row per (symbol,
\* timestamp) entry of the payloads (as many rows as entries, and for every
\* entry as many rows with its symbol and timestamp as there are such entries),
\* in ascending order of symbol and, within a symbol, of timestamp.
C1_RowsAreEntriesSorted ==
    (Done("ts") /\ symbols # <<>>) =>
        /\ file.exists
        /\ file.header = CSV_HEADER_TS
        /\ Len(file.rows) = Len(received)
        /\ \A k \in 1..Len(received) :
              LET sym == received[k].symbol
                  iso == ExpectedIso(received[k].timestamp) IN
              Cardinality(RowsOf(sym, iso)) = Cardinality(EntriesOf(sym, iso))
        /\ \A r \in 1..(Len(file.rows) - 1) : RowLE(file.rows[r], file.rows[r + 1])

\* C1 witness: symbols listed in descending order, a payload whose entries come
\* in descending time order, and a pair (symbol, timestamp) that occurs twice.
C1_Witness ==
    /\ Done("ts")
    /\ Len(symbols) = 3
    /\ StrLT(symbols[2], symbols[1])
    /\ symbols[3] = symbols[1]
    /\ \E k \in 1..(Len(received) - 1) :
          /\ received[k].symbol = received[k + 1].symbol
          /\ received[k].timestamp = "2024-01-02"
          /\ received[k + 1].timestamp = "2024-01-01"
    /\ \E k \in 1..Len(received) :
          Cardinality(EntriesOf(received[k].symbol, ExpectedIso(received[k].timestamp))) = 2
    /\ Len(file.rows) >= 4

AllBlank(syms) == \A k \in 1..Len(syms) : Strip(syms[k]) = <<>>

\* C2: in both entry points, a symbol list that is empty or holds only blank
\* strings ends in an input error: no get call is ever made, no file is ever
\* written, and the invocation does not complete.
C2_BlankInputRejected ==
    AllBlank(symbols) =>
        /\ calls = <<>>
        /\ ~file.exists
        /\ opens = 0
        /\ pc # "done"
        /\ pc = "error" => err[1].stage = "input"

KeylessPayloadRead ==
    /\ tsKeys # <<>>
    /\ \A k \in 1..Len(tsKeys[1]) : ~IsTimeSeriesKey(tsKeys[1][k])

\* C3: in time-series mode, once a payload without a recognized time-series
\* key has been read for a symbol, the invocation has ended in an error whose
\* message names that symbol, and the destination was never opened: it does
\* not exist.
C3_KeylessPayloadFails ==
    (mode = "ts" /\ KeylessPayloadRead) =>
        /\ pc = "error"
        /\ err[1].type = "ValueError"
        /\ err[1].symbols = {symbols[i]}
        /\ opens = 0
        /\ ~file.exists

\* C3 witness: the keyless payload is the answer for the last of three symbols,
\* after earlier symbols gave entries.
C3_Witness ==
    /\ Failed("ts")
    /\ KeylessPayloadRead
    /\ i = 3
    /\ Len(symbols) = 3
    /\ collected # <<>>
    /\ symbols[3] # symbols[1]

NonBlankInputs == SelectSeq(symbols, NonBlank)

HasQuote(sym) == \E q \in quoteSymbols[1] : StrUpper(q) = sym

RequestFailed == Failed("ts") /\ err[1].stage \in {"transport", "status"}

\* C5: in time-series mode a non-success status always ends the invocation
\* with the HTTP error, and when the request for the k-th symbol has failed
\* (transport failure or HTTP error) the error is the transport's own, the get
\* calls made are exactly those for symbols 1..k, one each, and the destination
\* was never opened and does not exist.
C5_FailFast ==
    /\ (mode = "ts" /\ status \notin {0, 200} /\ pc # "ts_status") =>
          (pc = "error" /\ err[1].type = "HTTPError" /\ err[1].stage = "status")
    /\ RequestFailed =>
          /\ err[1].type \in TransportFailures \cup {"HTTPError"}
          /\ Len(calls) = i
          /\ \A k \in 1..i : calls[k].symbol = symbols[k]
          /\ opens = 0
          /\ ~file.exists

\* C5 witness: the second of three requests fails with a non-success status
\* after the first symbol gave entries.
C5_Witness ==
    /\ RequestFailed
    /\ err[1].type = "HTTPError"
    /\ Len(symbols) = 3
    /\ i = 2
    /\ collected # <<>>

IsTicker(sym) == sym # <<>> /\ sym = Strip(sym) /\ sym = StrUpper(sym)

\* C6: in every file written, in either mode, the symbol of every data row is
\* a non-empty, trimmed, upper-case ticker.
C6_SymbolsNormalized ==
    file.exists => \A k \in 1..Len(file.rows) : IsTicker(file.rows[k].symbol)

\* C7: every failure while extracting a time-series entry ends the invocation
\* with an error whose message names the symbol being processed.
C7_EntryErrorsNameSymbol ==
    (Failed("ts") /\ err[1].stage = "entry") => symbols[i] \in err[1].symbols

\* C8: the data rows written in quote mode are in ascending symbol order.
C8_QuoteRowsSorted ==
    Done("quote") =>
        \A k \in 1..(Len(file.rows) - 1) :
            ~StrLT(file.rows[k + 1].symbol, file.rows[k].symbol)

VolumeKeys == {"5. volume", "6. volume"}

EntryDone == mode = "entry" /\ pc = "entry_done"

\* n is the integer value of the numeric string x (units of 1e-5, x >= 0)
IsIntegerValueOf(n, x) == n * 100000 <= x.v /\ x.v < (n + 1) * 100000

OHLCWellFormed(ts, fields) ==
    /\ ts \in {"2024-01-01", "2024-01-02T00:00:00"}
    /\ \A k \in 1..4 : OHLCKeys[k] \in DOMAIN fields /\ fields[OHLCKeys[k]].numeric

\* C9: for an entry whose timestamp and open/high/low/close are well formed,
\* from_alphavantage gives a record with volume 0 when the entry has neither
\* volume key (and raises nothing), and with the integer value of the one
\* volume key present when exactly one is present and numeric.
C9_VolumeDefault ==
    EntryDone =>
        LET a == fa_args[1]
            present == VolumeKeys \cap DOMAIN a.fields IN
        OHLCWellFormed(a.timestamp, a.fields) =>
            /\ present = {} => (fa_result[1].ok /\ fa_result[1].value[1].volume = 0)
            /\ \A key \in VolumeKeys :
                  (present = {key} /\ a.fields[key].numeric) =>
                      /\ fa_result[1].ok
                      /\ IsIntegerValueOf(fa_result[1].value[1].volume, a.fields[key])

\* C9 witness: an entry with "6. volume" = "3456.7" alone.
C9_Witness ==
    /\ EntryDone
    /\ OHLCWellFormed(fa_args[1].timestamp, fa_args[1].fields)
    /\ VolumeKeys \cap DOMAIN fa_args[1].fields = {"6. volume"}
    /\ fa_args[1].fields["6. volume"] = Num(345670000)
    /\ fa_result[1].ok
    /\ fa_result[1].value[1].volume = 3456

\* get, status check and normalization of symbols 1..n in turn, then the open
RECURSIVE SequentialEvents(_)
SequentialEvents(n) ==
    IF n = 0 THEN <<>>
    ELSE SequentialEvents(n - 1) \o <<Ev("get", n), Ev("status", n), Ev("norm", n)>>

IsPrefix(s, t) == Len(s) <= Len(t) /\ s = SubSeq(t, 1, Len(s))

GetsIn(s) == {k \in 1..Len(s) : s[k].ev = "get"}

\* C10: in time-series mode the steps taken are always a prefix of: get,
\* status check, normalization of symbol 1, then of symbol 2, ..., then the
\* open of the destination; every get call carries the symbol of its turn; a
\* successful invocation over n symbols has made exactly n get calls.  A
\* successful quote-mode invocation has made exactly one get call, whose
\* symbols parameter is the comma-joined trimmed, upper-cased non-blank inputs.
C10_SequentialRequests ==
    /\ mode = "ts" =>
          /\ IsPrefix(events, SequentialEvents(Len(symbols)) \o <<Ev("open", 0)>>)
          /\ Len(calls) = Cardinality(GetsIn(events))
          /\ \A k \in 1..Len(calls) : calls[k].symbol = symbols[k]
          /\ opens = Cardinality({k \in 1..Len(events) : events[k].ev = "open"})
    /\ Done("ts") => Len(calls) = Len(symbols) /\ opens = 1
    /\ Done("quote") =>
          /\ Len(calls) = 1
          /\ calls[1].symbols =
                Join([k \in 1..Len(NonBlankInputs) |-> StrUpper(Strip(NonBlankInputs[k]))])
          /\ opens = 1

\* C10 witness: a successful time-series invocation over three symbols.
C10_Witness ==
    /\ Done("ts")
    /\ Len(symbols) = 3
    /\ Len(calls) = 3
    /\ events[Len(events)] = Ev("open", 0)

====
